---- MODULE Spec2Model ----
(***************************************************************************)
(* Model of src/repo_watcher.rs (git-snapshot): the RepoWatcher facade,    *)
(* the per-root change handler built by RepoWatcher::watcher, and the      *)
(* config-file hot reload of RepoWatcher::watch_config.                    *)
(*                                                                         *)
(* The notification engine (crate::watcher::Watcher) and the repository    *)
(* (crate::Repo) are not part of repo_watcher.rs; they are modelled from   *)
(* their interface: a Watcher owns its registrations, calls the handler of  *)
(* a registration on every change under its root, and releases its         *)
(* registrations when dropped. repo_watcher.rs keeps no debounce table and *)
(* its handler consults none; debounce_period is only handed to            *)
(* Watcher::new.                                                           *)
(* The engine calls a handler with the changed path (the handler closure   *)
(* takes one PathBuf). A registration is live as soon as watch_path        *)
(* returns, and the engine's threads run in parallel with the caller, so   *)
(* every step of a build or of a reload can interleave with events.        *)
(* The Mutex of the slot is modelled with its holder: the reload closure   *)
(* takes it for the assignment only, and handlers never take it.           *)
(***************************************************************************)
EXTENDS Integers, Sequences, FiniteSets, TLC

\* ---------------------------------------------------------------- bounds
\* debounce_period, in clock ticks
DebouncePeriod == 2
\* reload callbacks that can be in flight at once
MaxCallbacks == 2
\* inputs from outside: changes under a root, rewrites of the config file,
\* the caller's drop of the facade
MaxEvents == 3

\* ------------------------------------------------------- the file system
RootA == <<"a">>
RootB == <<"b">>
Missing == <<"missing">>
ConfigPath == <<"watch.json">>

\* directories that exist (canonicalize succeeds on exactly these)
Dirs == {RootA, RootB}
\* directories that are repositories
Repos == {RootA, RootB}
\* relative paths matched by a repository's ignore rules
IgnoredRel == {<<"tmp.log">>}

\* paths at which the model lets a change happen
ChangePaths ==
  { RootA \o <<"f.txt">>, RootA \o <<".git", "index">>, RootA \o <<"tmp.log">>,
    RootB \o <<"f.txt">> }

\* contents the config file can have
FileA == [parses |-> TRUE, repos |-> <<RootA>>]
FileB == [parses |-> TRUE, repos |-> <<RootB>>]
FileABad == [parses |-> TRUE, repos |-> <<RootA, Missing>>]
FileGarbage == [parses |-> FALSE, repos |-> <<>>]
Contents == {FileA, FileB, FileABad, FileGarbage}

NoRepo == <<>>

\* --------------------------------------------------------- pure functions
IsPrefix(base, p) == Len(base) <= Len(p) /\ SubSeq(p, 1, Len(base)) = base

\* Path::strip_prefix: Ok(rest) when base is a prefix of p
StripPrefix(p, base) ==
  IF IsPrefix(base, p)
    THEN [ok |-> TRUE, rel |-> SubSeq(p, Len(base) + 1, Len(p))]
    ELSE [ok |-> FALSE, rel |-> <<>>]

\* Path::starts_with on a single component
StartsWith(rel, seg) == Len(rel) >= 1 /\ rel[1] = seg

\* std::fs::canonicalize
Canonicalize(p) == [ok |-> p \in Dirs, path |-> p]

\* Repo::from_path: the repository enclosing p, NoRepo when there is none
FromPath(p) ==
  IF \E r \in Repos : IsPrefix(r, p)
    THEN CHOOSE r \in Repos : IsPrefix(r, p)
    ELSE NoRepo

\* Repo::is_ignored(rel).unwrap_or(false)
IsIgnored(repo, rel) == rel \in IgnoredRel

\* faulty variant: open_config that reads an unparsable file as a config
OpenConfigLenient(content) == [ok |-> TRUE, repos |-> content.repos]

\* RepoWatcher::open_config
OpenConfig(content) == [ok |-> content.parses, repos |-> content.repos]

\* let rel = path.strip_prefix(&path).unwrap(), in the handler closure: the
\* closure's parameter is named path and hides the loop's path, so
\* strip_prefix is applied to the changed path and itself.
HandlerRel(path) == StripPrefix(path, path).rel

\* what can go wrong in the repository while a handler runs: nothing,
\* Repo::from_path returns Err, is_ignored returns Err, snapshot returns Err
Faults == {"none", "from_path_err", "is_ignored_err", "snapshot_err"}

\* The change handler closure of RepoWatcher::watcher, called with the
\* changed path: the repository whose snapshot() it calls, or NoRepo.
\* from_path is matched with if let Ok, is_ignored goes through
\* unwrap_or(false), and the result of snapshot is only tested.
Handler(path, fault) ==
  LET rel == HandlerRel(path)
  IN  IF StartsWith(rel, ".git") THEN NoRepo
      ELSE LET repo == IF fault = "from_path_err" THEN NoRepo
                       ELSE FromPath(path)
           IN  IF repo = NoRepo THEN NoRepo
               ELSE IF ~(fault # "is_ignored_err" /\ IsIgnored(repo, rel))
                 THEN repo
               ELSE NoRepo

\* the handler reaches the call that fails
Reached(path, fault) ==
  /\ ~StartsWith(HandlerRel(path), ".git")
  /\ fault # "from_path_err" => FromPath(path) # NoRepo
  /\ fault = "snapshot_err" => Handler(path, "none") # NoRepo

\* faulty variant: a handler that unwraps the results, and so panics on Err
HandlerUnwraps(fault) == fault = "none"

\* whether the handler returns normally: no Err of from_path, is_ignored or
\* snapshot is unwrapped or propagated (lines 65-67)
HandlerReturns(fault) == TRUE

\* ------------------------------------------------------------------ state
VARIABLES
  cfgFile,    \* content of the config file
  heap,       \* the Watcher instances, by id
  slot,       \* id of the Watcher inside the Arc<Mutex<Watcher>>, 0 when none
  lock,       \* the reload callback holding the Mutex of the slot, 0 when free
  facade,     \* "none", "alive", "dropped", "failed"
  main,       \* the constructing thread
  cbs,        \* reload callbacks in flight
  sinceSnap,  \* per repository, the time since its last snapshot() call
  sinceReload,\* the time since the engine last called a reload closure
  nEvents,    \* inputs from outside so far
  step        \* the last step taken, with the snapshot() calls it made

vars ==
  <<cfgFile, heap, slot, lock, facade, main, cbs, sinceSnap, sinceReload,
    nEvents, step>>

\* Time is observed as elapsed time since a call, capped at the debounce
\* period: now - prior < debounce_period iff the elapsed time is below the
\* period; a call that never happened has the period as elapsed time.
Age(e) == IF e < DebouncePeriod THEN e + 1 ELSE e

\* the slot's Watcher, one per reload callback in flight
Ids == 1..(MaxCallbacks + 1)

\* A Watcher: its registrations (regs for roots, cfg for the config path),
\* and for the properties: whether it has been put in the slot (installed)
\* and whether a handler of it called snapshot before that (fired).
DeadWatcher ==
  [alive |-> FALSE, regs |-> {}, cfg |-> FALSE,
   installed |-> FALSE, fired |-> FALSE]

\* Watcher::new
NewWatcher == [DeadWatcher EXCEPT !.alive = TRUE]

Alive == {w \in Ids : heap[w].alive}
FreeIds == {w \in Ids : ~heap[w].alive}
Alloc == CHOOSE w \in FreeIds : \A v \in FreeIds : w <= v

\* drop(Watcher): its registrations are released
DropWatcher(h, w) == [h EXCEPT ![w] = DeadWatcher]

\* the record of a step: what was done, the changed path (for a change), and
\* a count: the snapshot() calls a change made, the closures a rewrite woke,
\* whether a re-arm succeeded, whether a failed build's Watcher had called
\* snapshot()
Step(op, path, n) == [op |-> op, path |-> path, n |-> n]

IdleMain == [pc |-> "start", kind |-> "none", cfg |-> <<>>, w |-> 0, i |-> 0]
IdleCb == [pc |-> "idle", cfg |-> <<>>, w |-> 0, i |-> 0]
CbIds == 1..MaxCallbacks
IdleCbs == {k \in CbIds : cbs[k].pc = "idle"}

\* The Arc<Mutex<Watcher>> is freed when nothing holds it any more: the
\* facade holds one reference, and every reload closure (registered in a
\* live Watcher, or running) holds a clone.
Collect(h, s, f, c) ==
  IF f = "dropped" /\ s # 0 /\ (\A k \in CbIds : c[k].pc = "idle") /\ ~h[s].cfg
    THEN [heap |-> DropWatcher(h, s), slot |-> 0]
    ELSE [heap |-> h, slot |-> s]

\* the engine: the Watchers whose handler is called for a change at p, one
\* for every detected change under a root it has registered
Receivers(p) ==
  {w \in Alive : \E r \in heap[w].regs : IsPrefix(r, p)}

\* faulty variant: a failed build that leaves its Watcher and the entries it
\* registered behind
WatchEntryLeak(h, w, path, refuse) ==
  IF ~Canonicalize(path).ok \/ refuse
    THEN [ok |-> FALSE, heap |-> h]
    ELSE [ok |-> TRUE,
          heap |-> [h EXCEPT ![w].regs = @ \cup {Canonicalize(path).path}]]

\* one iteration of the loop of RepoWatcher::watcher:
\* watcher.watch_path(canonicalize(path)?, Box::new(handler))?
WatchEntry(h, w, path, refuse) ==
  IF ~Canonicalize(path).ok \/ refuse
    THEN [ok |-> FALSE, heap |-> DropWatcher(h, w)]
    ELSE [ok |-> TRUE,
          heap |-> [h EXCEPT ![w].regs = @ \cup {Canonicalize(path).path}]]

\* faulty variant: a swap that keeps the replaced Watcher alive
InstallKeepOld(h, s, w) ==
  IF s = 0 \/ s = w
    THEN [heap |-> [h EXCEPT ![w].installed = TRUE, ![w].fired = FALSE],
          slot |-> w]
    ELSE [heap |-> [h EXCEPT ![s] = [h[w] EXCEPT !.installed = TRUE,
                                               !.fired = FALSE],
                             ![w] = h[s]],
          slot |-> s]

\* Mutex::new(watcher), and *w_lock = w: the new Watcher is moved into the
\* Mutex (the cell s of the heap) and the one it replaces is dropped
Install(h, s, w) ==
  IF s = 0 \/ s = w
    THEN [heap |-> [h EXCEPT ![w].installed = TRUE, ![w].fired = FALSE],
          slot |-> w]
    ELSE [heap |-> [DropWatcher(h, w) EXCEPT
                      ![s] = [h[w] EXCEPT !.installed = TRUE, !.fired = FALSE]],
          slot |-> s]

\* watcher.lock().unwrap().watch_path(config_path, reload closure)
WatchConfig(h, s, refuse) ==
  IF refuse THEN [ok |-> FALSE, heap |-> h]
  ELSE [ok |-> TRUE, heap |-> [h EXCEPT ![s].cfg = TRUE]]

Init ==
  /\ cfgFile \in Contents
  /\ heap = [w \in Ids |-> DeadWatcher]
  /\ slot = 0
  /\ lock = 0
  /\ facade = "none"
  /\ main = IdleMain
  /\ cbs = [k \in CbIds |-> IdleCb]
  /\ sinceSnap = [r \in Repos |-> DebouncePeriod]
  /\ sinceReload = DebouncePeriod
  /\ nEvents = 0
  /\ step = Step("init", <<>>, 0)

\* ---------------------------------------------------------- environment
\* one clock tick passes; elapsed times are read only when an input
\* arrives, so the clock stops once the bound on inputs is reached
Tick ==
  /\ nEvents < MaxEvents
  /\ \/ \E r \in Repos : sinceSnap[r] < DebouncePeriod
     \/ sinceReload < DebouncePeriod
  /\ sinceSnap' = [r \in Repos |-> Age(sinceSnap[r])]
  /\ sinceReload' = Age(sinceReload)
  /\ step' = Step("tick", <<>>, 0)
  /\ UNCHANGED <<cfgFile, heap, lock, slot, facade, main, cbs, nEvents>>

\* A file changes at p: the engine calls the handler of every live
\* registration whose root contains p; the repository may fail the handler
\* with fault. A handler that did not return normally would take the
\* engine's thread, and with it the Watcher's registrations, down.
FsChange(p, fault) ==
  /\ nEvents < MaxEvents
  /\ nEvents' = nEvents + 1
  /\ LET rcv == Receivers(p)
         repo == Handler(p, fault)
         n == IF repo = NoRepo THEN 0 ELSE Cardinality(rcv)
     IN  /\ fault # "none" => (rcv # {} /\ Reached(p, fault))
         /\ heap' = [w \in Ids |->
                      IF w \notin rcv THEN heap[w]
                      ELSE IF ~HandlerReturns(fault) THEN DeadWatcher
                      ELSE [heap[w] EXCEPT
                              !.fired = @ \/ (repo # NoRepo /\ ~heap[w].installed)]]
         /\ sinceSnap' = IF n > 0 THEN [sinceSnap EXCEPT ![repo] = 0] ELSE sinceSnap
         /\ step' = IF fault = "none" THEN Step("change", p, n)
                    ELSE Step(fault, <<>>, n)
  /\ UNCHANGED <<cfgFile, lock, slot, facade, main, cbs, sinceReload>>

\* The config file is rewritten with content c: the engine calls the reload
\* closure of every live registration on the config path.
WriteConfig(c) ==
  LET rcv == {w \in Alive : heap[w].cfg}
  IN  /\ nEvents < MaxEvents
      /\ nEvents' = nEvents + 1
      /\ Cardinality(rcv) <= Cardinality(IdleCbs)
      /\ cfgFile' = c
      /\ cbs' = IF rcv = {} THEN cbs
                ELSE LET k == CHOOSE i \in IdleCbs : \A j \in IdleCbs : i <= j
                     IN  [cbs EXCEPT ![k].pc = "open"]
      /\ sinceReload' = IF rcv = {} THEN sinceReload ELSE 0
      /\ step' = Step("write_config", <<>>, Cardinality(rcv))
      /\ UNCHANGED <<heap, slot, lock, facade, main, sinceSnap>>

\* ----------------------------------------------------------- construction
\* RepoWatcher::new(config): Self::watcher(config) starts with
\* Watcher::new(..)?, which returns Err (fail) when the engine cannot be
\* created; no Watcher exists then
CtorNew(c) ==
  /\ main.pc = "start"
  /\ c.parses
  /\ \E fail \in BOOLEAN :
       IF fail
         THEN /\ heap' = heap
              /\ main' = [IdleMain EXCEPT !.pc = "done", !.kind = "new"]
              /\ facade' = "failed"
              /\ step' = Step("ctor_build_failed", <<>>, 0)
         ELSE /\ heap' = [heap EXCEPT ![Alloc] = NewWatcher]
              /\ main' = [pc |-> IF Len(c.repos) = 0 THEN "arm" ELSE "build",
                          kind |-> "new", cfg |-> c.repos, w |-> Alloc, i |-> 1]
              /\ facade' = facade
              /\ step' = Step("ctor_new", <<>>, 0)
  /\ UNCHANGED <<cfgFile, lock, slot, cbs, sinceSnap, sinceReload, nEvents>>

\* RepoWatcher::with_config(path): open_config(path)?, then Self::watcher,
\* which starts with Watcher::new(..)?
CtorWithConfig ==
  /\ main.pc = "start"
  /\ \E fail \in BOOLEAN :
       LET r == OpenConfig(cfgFile)
       IN  /\ fail => r.ok
           /\ IF r.ok /\ ~fail
                THEN /\ heap' = [heap EXCEPT ![Alloc] = NewWatcher]
                     /\ main' = [pc |-> IF Len(r.repos) = 0 THEN "arm"
                                        ELSE "build",
                                 kind |-> "file", cfg |-> r.repos, w |-> Alloc,
                                 i |-> 1]
                     /\ facade' = facade
                ELSE /\ heap' = heap
                     /\ main' = [IdleMain EXCEPT !.pc = "done", !.kind = "file"]
                     /\ facade' = "failed"
           /\ step' = IF fail THEN Step("ctor_build_failed", <<>>, 0)
                      ELSE Step("ctor_open", <<>>, 0)
  /\ UNCHANGED <<cfgFile, lock, slot, cbs, sinceSnap, sinceReload, nEvents>>

\* one iteration of the loop of Self::watcher, in the constructing thread
CtorBuild ==
  /\ main.pc = "build"
  /\ \E refuse \in BOOLEAN :
       /\ refuse => Canonicalize(main.cfg[main.i]).ok
       /\ LET r == WatchEntry(heap, main.w, main.cfg[main.i], refuse)
          IN  /\ heap' = r.heap
              /\ IF r.ok
                   THEN /\ main' = [main EXCEPT
                                      !.i = @ + 1,
                                      !.pc = IF main.i = Len(main.cfg) THEN "arm"
                                             ELSE "build"]
                        /\ facade' = facade
                        /\ step' = Step("ctor_build", <<>>, 0)
                   ELSE /\ main' = [IdleMain EXCEPT !.pc = "done", !.kind = main.kind]
                        /\ facade' = "failed"
                        /\ step' = Step("ctor_build_failed", <<>>,
                                        IF heap[main.w].fired THEN 1 ELSE 0)
  /\ UNCHANGED <<cfgFile, lock, slot, cbs, sinceSnap, sinceReload, nEvents>>

\* faulty variant: every constructor arms the reload handler
ArmsReloadAlways(kind) == TRUE

\* which constructor calls watch_config: with_config does (line 50), new does
\* not (line 34)
ArmsReload(kind) == kind = "file"

\* Arc::new(Mutex::new(watcher)); for with_config, watch_config(...)? too
CtorFinish ==
  /\ main.pc = "arm"
  /\ \E refuse \in BOOLEAN :
       /\ refuse => ArmsReload(main.kind)
       /\ LET ins == Install(heap, 0, main.w)
              r == IF ArmsReload(main.kind) THEN WatchConfig(ins.heap, ins.slot, refuse)
                   ELSE [ok |-> TRUE, heap |-> ins.heap]
          IN  IF r.ok
                THEN /\ heap' = r.heap
                     /\ slot' = ins.slot
                     /\ facade' = "alive"
                     /\ main' = [IdleMain EXCEPT !.pc = "done", !.kind = main.kind]
                ELSE /\ heap' = DropWatcher(r.heap, ins.slot)
                     /\ slot' = 0
                     /\ facade' = "failed"
                     /\ main' = [IdleMain EXCEPT !.pc = "done", !.kind = main.kind]
  /\ step' = Step("ctor_finish", <<>>, 0)
  /\ UNCHANGED <<cfgFile, lock, cbs, sinceSnap, sinceReload, nEvents>>

\* drop(RepoWatcher): the facade's reference to the slot goes away
DropFacade ==
  /\ facade = "alive"
  /\ nEvents < MaxEvents
  /\ nEvents' = nEvents + 1
  /\ facade' = "dropped"
  /\ LET c == Collect(heap, slot, "dropped", cbs)
     IN  heap' = c.heap /\ slot' = c.slot
  /\ step' = Step("drop", <<>>, 0)
  /\ UNCHANGED <<cfgFile, lock, main, cbs, sinceSnap, sinceReload>>

\* ------------------------------------------------- the reload closure
\* faulty variant: a reload closure that takes the lock of the slot before
\* it parses and builds
ReloadOpenLocked(k) ==
  /\ cbs[k].pc = "open"
  /\ lock = 0
  /\ LET r == OpenConfig(cfgFile)
     IN  IF r.ok
           THEN /\ FreeIds # {}
                /\ heap' = [heap EXCEPT ![Alloc] = NewWatcher]
                /\ slot' = slot
                /\ lock' = k
                /\ cbs' = [cbs EXCEPT ![k] =
                             [pc |-> IF Len(r.repos) = 0 THEN "locked" ELSE "build",
                              cfg |-> r.repos, w |-> Alloc, i |-> 1]]
           ELSE LET cs == [cbs EXCEPT ![k] = IdleCb]
                    c == Collect(heap, slot, facade, cs)
                IN  heap' = c.heap /\ slot' = c.slot /\ cbs' = cs /\ lock' = lock
  /\ step' = Step("reload_open", <<>>, 0)
  /\ UNCHANGED <<cfgFile, facade, main, sinceSnap, sinceReload, nEvents>>

\* if let Ok(config) = Self::open_config(&path), then if let Ok(w) =
\* Self::watcher(config), which starts with Watcher::new(..)?: when that
\* returns Err (fail) the closure ends with nothing created
ReloadOpen(k) ==
  /\ cbs[k].pc = "open"
  /\ \E fail \in BOOLEAN :
       LET r == OpenConfig(cfgFile)
       IN  /\ fail => r.ok
           /\ IF r.ok /\ ~fail
                THEN /\ FreeIds # {}
                     /\ heap' = [heap EXCEPT ![Alloc] = NewWatcher]
                     /\ slot' = slot
                     /\ cbs' = [cbs EXCEPT ![k] =
                                  [pc |-> IF Len(r.repos) = 0 THEN "swap"
                                         ELSE "build",
                                   cfg |-> r.repos, w |-> Alloc, i |-> 1]]
                ELSE LET cs == [cbs EXCEPT ![k] = IdleCb]
                         c == Collect(heap, slot, facade, cs)
                     IN  heap' = c.heap /\ slot' = c.slot /\ cbs' = cs
           /\ step' = IF fail THEN Step("reload_build_failed", <<>>, 0)
                      ELSE Step("reload_open", <<>>, 0)
  /\ UNCHANGED <<cfgFile, lock, facade, main, sinceSnap, sinceReload, nEvents>>

\* one iteration of the loop of Self::watcher, in the reload closure
ReloadBuild(k) ==
  /\ cbs[k].pc = "build"
  /\ \E refuse \in BOOLEAN :
       /\ refuse => Canonicalize(cbs[k].cfg[cbs[k].i]).ok
       /\ LET cb == cbs[k]
              r == WatchEntry(heap, cb.w, cb.cfg[cb.i], refuse)
          IN  IF r.ok
                THEN /\ heap' = r.heap
                     /\ slot' = slot
                     /\ cbs' = [cbs EXCEPT
                                  ![k].i = @ + 1,
                                  ![k].pc = IF cb.i = Len(cb.cfg) THEN "swap"
                                            ELSE "build"]
                     /\ step' = Step("reload_build", <<>>, 0)
                ELSE LET cs == [cbs EXCEPT ![k] = IdleCb]
                         c == Collect(r.heap, slot, facade, cs)
                     IN  /\ heap' = c.heap /\ slot' = c.slot /\ cbs' = cs
                         /\ step' = Step("reload_build_failed", <<>>,
                                         IF heap[cb.w].fired THEN 1 ELSE 0)
  /\ UNCHANGED <<cfgFile, lock, facade, main, sinceSnap, sinceReload, nEvents>>

\* let mut w_lock = watcher.lock().unwrap(): waits until the Mutex is free
ReloadLock(k) ==
  /\ cbs[k].pc = "swap"
  /\ lock = 0
  /\ lock' = k
  /\ cbs' = [cbs EXCEPT ![k].pc = "locked"]
  /\ step' = Step("reload_lock", <<>>, 0)
  /\ UNCHANGED <<cfgFile, heap, slot, facade, main, sinceSnap, sinceReload,
                 nEvents>>

\* *w_lock = w; drop(w_lock)
ReloadSwap(k) ==
  /\ cbs[k].pc = "locked"
  /\ LET ins == Install(heap, slot, cbs[k].w)
     IN  heap' = ins.heap /\ slot' = ins.slot
  /\ lock' = 0
  /\ cbs' = [cbs EXCEPT ![k].pc = "rearm", ![k].w = 0]
  /\ step' = Step("reload_swap", <<>>, 0)
  /\ UNCHANGED <<cfgFile, facade, main, sinceSnap, sinceReload, nEvents>>

\* if let Err(err) = Self::watch_config(watcher.clone(), &path, period)
\*   { error!(..) }
\* watch_config holds the lock for the one statement of line 81
ReloadRearm(k) ==
  /\ cbs[k].pc = "rearm"
  /\ lock = 0
  /\ \E refuse \in BOOLEAN :
       /\ LET r == WatchConfig(heap, slot, refuse)
              cs == [cbs EXCEPT ![k] = IdleCb]
              c == Collect(r.heap, slot, facade, cs)
          IN  /\ heap' = c.heap /\ slot' = c.slot /\ cbs' = cs
              /\ step' = Step("reload_rearm", <<>>, IF r.ok THEN 1 ELSE 0)
  /\ UNCHANGED <<cfgFile, lock, facade, main, sinceSnap, sinceReload, nEvents>>

Next ==
  \/ Tick
  \/ \E p \in ChangePaths : \E fault \in Faults : FsChange(p, fault)
  \/ \E c \in Contents : WriteConfig(c)
  \/ \E c \in Contents : CtorNew(c)
  \/ CtorWithConfig
  \/ CtorBuild
  \/ CtorFinish
  \/ DropFacade
  \/ \E k \in CbIds : ReloadOpen(k)
  \/ \E k \in CbIds : ReloadBuild(k)
  \/ \E k \in CbIds : ReloadLock(k)
  \/ \E k \in CbIds : ReloadSwap(k)
  \/ \E k \in CbIds : ReloadRearm(k)

Spec == Init /\ [][Next]_vars

\* a step of a reload closure that the engine has called
ReloadStep ==
  \E k \in CbIds :
    \/ ReloadOpen(k) \/ ReloadBuild(k) \/ ReloadLock(k) \/ ReloadSwap(k)
    \/ ReloadRearm(k)

\* the engine's threads keep running: a reload closure that has been called
\* runs to its end
FairSpec == Spec /\ WF_vars(ReloadStep)

\* ------------------------------------------------------------ properties
\* the steps in which a file changed under some path
ChangeOps == {"change"} \cup (Faults \ {"none"})
NoCallback == \A k \in CbIds : cbs[k].pc = "idle"
UnderGit(r, p) == IsPrefix(r \o <<".git">>, p)
\* p is under root r, outside r/.git, and not matched by r's ignore rules
Eligible(r, p) ==
  /\ IsPrefix(r, p)
  /\ ~UnderGit(r, p)
  /\ ~IsIgnored(r, StripPrefix(p, r).rel)
\* the facade is alive, no reload is in flight, and the generation in the
\* slot watches exactly root r
ReloadSettled(r) ==
  /\ facade = "alive" /\ main.kind = "file" /\ NoCallback
  /\ slot # 0 /\ heap[slot].regs = {r}

\* C1: for a watcher built by with_config, once the config file names root
\* B only and the reload has completed (no reload callback is running and
\* the generation in the slot watches exactly B), a change under A
\* makes no snapshot call and a change under B (outside .git, not ignored)
\* makes one snapshot call on B.
C1_AfterReload ==
  [][ (ReloadSettled(RootB) /\ step'.op = "change")
      => /\ IsPrefix(RootA, step'.path) => step'.n = 0
         /\ Eligible(RootB, step'.path)
              => (step'.n = 1 /\ sinceSnap'[RootB] = 0) ]_vars

\* a reload closure was called less than debounce_period ago and has run
\* to its end, and root A, which a handler snapshotted before, is no longer
\* watched
C1_Witness ==
  /\ ReloadSettled(RootB)
  /\ sinceReload < DebouncePeriod /\ sinceSnap[RootA] < DebouncePeriod
  /\ step.op = "change" /\ IsPrefix(RootA, step.path) /\ step.n = 0

\* C2: for every root of the live generation, a change outside .git and
\* not ignored, with no snapshot call for the root in the debounce period
\* before it, makes exactly one snapshot call.
C2_ExactlyOneSnapshot ==
  [][ \A r \in Repos :
        ( /\ facade = "alive" /\ slot # 0 /\ r \in heap[slot].regs
          /\ sinceSnap[r] = DebouncePeriod
          /\ step'.op = "change" /\ Eligible(r, step'.path) )
        => step'.n = 1 ]_vars

\* C3: no two snapshot calls for one root are closer together than
\* debounce_period.
C3_DebounceSpacing ==
  [][ \A r \in Repos :
        (step'.op = "change" /\ IsPrefix(r, step'.path) /\ step'.n > 0)
        => sinceSnap[r] >= DebouncePeriod ]_vars

\* C4: a change under <root>/.git makes no snapshot call and leaves the
\* time of every root's last accepted trigger as it was.
C4_GitDirIgnored ==
  [][ \A r \in Dirs :
        (step'.op = "change" /\ UnderGit(r, step'.path))
        => /\ step'.n = 0
           /\ sinceSnap' = sinceSnap ]_vars

\* C5: once the facade is dropped (and no reload callback is still
\* running), no Watcher is alive, so no handler can be called again.
C5_DropReleasesAll == (facade = "dropped" /\ NoCallback) => Alive = {}

\* C6: a reload callback that finds the config file unparsable leaves the
\* slot and every Watcher (registrations, reload registration) exactly as
\* they were, and ends.
C6_ParseFailureKeepsGeneration ==
  [][ \A k \in CbIds :
        ( /\ facade = "alive" /\ cbs[k].pc = "open" /\ ~cfgFile.parses
          /\ cbs'[k] # cbs[k] )
        => (slot' = slot /\ heap' = heap /\ cbs'[k] = IdleCb) ]_vars

C6_Witness ==
  /\ step.op = "reload_open" /\ ~cfgFile.parses /\ NoCallback
  /\ facade = "alive" /\ slot # 0 /\ heap[slot].cfg /\ heap[slot].regs # {}

\* C7: when a reload's build fails, the slot and its generation are left
\* unchanged, and no handler registered for the failed build has called
\* snapshot.
C7_FailedReloadBuild ==
  [][ (facade = "alive" /\ step'.op = "reload_build_failed")
      => /\ slot' = slot /\ heap'[slot] = heap[slot]
         /\ step'.n = 0 ]_vars

\* C8: while the facade of a watcher built by with_config is alive and no
\* reload callback is running, the generation in the slot has a reload
\* handler registered on the config file.
C8_AlwaysArmed ==
  (facade = "alive" /\ main.kind = "file" /\ NoCallback) => heap[slot].cfg

\* C9: a generation that has been installed in the slot and replaced has no
\* live registration left: only the generation in the slot, of all those
\* ever installed, can receive a notification.
C9_OneLiveGeneration == \A w \in Alive : heap[w].installed => w = slot

C9_Witness ==
  /\ step.op = "reload_swap"
  /\ \E k \in CbIds : cbs[k].pc \in {"open", "build", "swap"}
  /\ Cardinality({w \in Alive : heap[w].installed}) = 1

\* C10: a build that fails (in the constructor or in a reload) has not let
\* any handler it registered call snapshot.
C10_AllOrNothing ==
  step.op \in {"ctor_build_failed", "reload_build_failed"} => step.n = 0

\* only the Watcher in the slot ever holds the reload registration
OnlySlotArmed == \A w \in Alive : heap[w].cfg => w = slot

\* C11: a watcher constructed with new(config) has no reload handler on any
\* Watcher and never runs a reload callback, and while its facade is alive
\* the slot keeps the generation the constructor built, with the roots it
\* registered.
C11_NewNeverReloads ==
  [][ main.kind = "new"
      => /\ \A w \in Ids : ~heap[w].cfg
         /\ NoCallback
         /\ (facade = "alive" /\ facade' = "alive")
              => (slot' = slot /\ heap'[slot].regs = heap[slot].regs) ]_vars

\* the config file was rewritten while a facade built by new was alive
C11_Witness ==
  /\ main.kind = "new" /\ facade = "alive" /\ slot # 0
  /\ step.op = "write_config" /\ cfgFile = FileB /\ heap[slot].regs = {RootA}

\* C12: with_config ends in an error, with no Watcher left alive and nothing
\* in the slot, when the config file does not parse, when a repo path does
\* not resolve, or when the engine refuses (to create a Watcher, or a
\* registration of a root or of the config path); a facade is returned only
\* with the reload handler registered.
C12_WithConfigErrors ==
  [][ (main.kind' = "file" /\ main.pc # "done" /\ main.pc' = "done")
      => /\ ( \/ (main.pc = "start" /\ ~cfgFile.parses)
              \/ (main.pc = "build" /\ ~Canonicalize(main.cfg[main.i]).ok)
              \/ step'.op = "ctor_build_failed"
              \/ (main.pc = "arm" /\ ~heap'[main.w].cfg) )
           => (facade' = "failed" /\ Alive' = {} /\ slot' = 0)
         /\ facade' = "alive" => (slot' # 0 /\ heap'[slot'].cfg)
         /\ facade' \in {"alive", "failed"} ]_vars

\* with_config failed on its second entry after the first was registered
\* (and had already delivered a change)
C12_Witness ==
  /\ main.kind = "file" /\ main.pc = "done" /\ facade = "failed"
  /\ step.op = "ctor_build_failed" /\ step.n = 1 /\ Alive = {}

\* C13: debounce history survives a reload: once a reload has completed
\* (the generation in the slot is the only Watcher alive, no reload callback
\* is running), a change under a root of that generation that arrives less
\* than debounce_period after the root's last snapshot call (an accepted
\* trigger) is suppressed.
C13_HistorySurvivesReload ==
  [][ \A r \in Repos :
        ( /\ facade = "alive" /\ main.kind = "file" /\ NoCallback
          /\ Alive = {slot} /\ r \in heap[slot].regs
          /\ sinceSnap[r] < DebouncePeriod
          /\ step'.op = "change" /\ IsPrefix(r, step'.path) )
        => step'.n = 0 ]_vars

\* C14: while the facade is alive, a rewrite of the config file made less
\* than debounce_period after the rewrite that last started a reload is
\* suppressed by the gate: it starts no reload of its own.
C14_RewritesCollapse ==
  [][ (facade = "alive" /\ step'.op = "write_config"
       /\ sinceReload < DebouncePeriod)
      => step'.n = 0 ]_vars

\* C16: for a change at p under a registered root, the relative path the
\* handler tests for .git and passes to is_ignored is p with the root
\* prefix stripped.
C16_RelativeToRoot ==
  [][ \A r \in Dirs :
        ( /\ \E w \in Alive : r \in heap[w].regs
          /\ step'.op = "change" /\ IsPrefix(r, step'.path) )
        => HandlerRel(step'.path) = StripPrefix(step'.path, r).rel ]_vars

\* C17: a change whose handler meets an unrecognized repository, an
\* ignore-check error or a snapshot error leaves every Watcher alive with
\* the registrations it had, and the slot and the facade as they were; and
\* whenever a root is registered, a change that reaches snapshot without a
\* fault calls it, whatever failed before.
C17_HandlerFailureAbsorbed ==
  [][ /\ step'.op \in Faults \ {"none"}
        => /\ \A w \in Ids : /\ heap'[w].alive = heap[w].alive
                             /\ heap'[w].regs = heap[w].regs
                             /\ heap'[w].cfg = heap[w].cfg
           /\ slot' = slot /\ facade' = facade
      /\ ( /\ step'.op = "change" /\ Handler(step'.path, "none") # NoRepo
           /\ \E w \in Alive : \E r \in heap[w].regs :
                 IsPrefix(r, step'.path) )
        => step'.n >= 1 ]_vars

\* from_path failed for a change under A, and A is still registered
C17_Witness ==
  /\ facade = "alive" /\ Alive = {slot} /\ heap[slot].regs = {RootA}
  /\ step.op = "from_path_err" /\ step.n = 0

\* C18: the lock of the slot is held only by a reload callback that stands
\* between lock() and the assignment, never by one that is parsing or
\* building; a change (repository lookup, ignore check, snapshot) and a
\* parse or build step are taken by a thread that does not hold the lock
\* and leave the lock as it was, so that neither can keep a swap or a
\* handler waiting.
C18_NoLockAcrossIO ==
  [][ /\ lock # 0 => (lock \in CbIds /\ cbs[lock].pc = "locked")
      /\ \A k \in CbIds :
           (cbs[k].pc \in {"open", "build"} /\ cbs'[k] # cbs[k])
             => (lock # k /\ lock' = lock)
      /\ step'.op \in ChangeOps => lock' = lock ]_vars

\* a change was handled on one root while a reload callback held the lock
C18_Witness ==
  /\ lock # 0 /\ cbs[lock].pc = "locked"
  /\ step.op = "change" /\ step.n >= 1

\* the roots a config names
CfgRoots(c) == {c.repos[i] : i \in 1..Len(c.repos)}

\* C19: when two reload callbacks run concurrently (one stands between its
\* swap and its re-arm, the other is about to swap) and the generation in
\* the slot is built from the content the config file has now, the second
\* swap does not replace it by a generation built from other content, which
\* can only come from a read older than the file's last rewrite.
C19_InstalledInReadOrder ==
  [][ \A k \in CbIds :
        ( /\ facade = "alive" /\ cfgFile.parses
          /\ cbs[k].pc = "locked" /\ cbs'[k].pc = "rearm"
          /\ \E j \in CbIds \ {k} : cbs[j].pc = "rearm"
          /\ heap[slot].regs = CfgRoots(cfgFile) )
        => heap'[slot'].regs = CfgRoots(cfgFile) ]_vars

\* the generation in the slot is built from the content the config file has
LiveMatchesFile ==
  slot # 0 /\ cfgFile.parses /\ heap[slot].regs = CfgRoots(cfgFile)

\* C20: a rewrite of the config file with a valid content c, made while the
\* facade is alive and a reload callback stands between its swap and its
\* re-arm, is eventually followed by a live generation built from c, unless
\* the file is rewritten again or the facade is dropped.
C20_NoConfigChangeLost ==
  \A c \in {FileA, FileB} :
    ( /\ facade = "alive" /\ main.kind = "file"
      /\ step.op = "write_config" /\ cfgFile = c
      /\ \E k \in CbIds : cbs[k].pc = "rearm" )
    ~> (LiveMatchesFile \/ cfgFile # c \/ facade # "alive")
====
